---- MODULE Spec2Model ----
(***************************************************************************)
(* A model of p4harmonize-git-ue: the comparison of a git source tree with *)
(* a perforce destination stream (P4GitFileDiff) and the run that stages   *)
(* the differences (P4HarmonizeGit.run / P4HarmonizeGitUnreal).            *)
(*                                                                         *)
(* Strings are sequences of one-character strings, so that str.lower, the  *)
(* backslash replacement and str(size) are computed, not assumed.          *)
(* Python lists of objects are sequences; a list that holds references to  *)
(* GitFile / P4File objects (src_only, changed, ...) holds the indices of  *)
(* the objects in src_files / dst_files, so that the digest cached on a    *)
(* GitFile is seen through every reference to it.                          *)
(***************************************************************************)
EXTENDS Integers, Sequences, FiniteSets, TLC

\* -------------------------------------------------------------- bounds
\* the longest `git ls-tree` listing, .uedependencies listing and depot
MaxSrc == 2
MaxDeps == 1
MaxDst == 2

\* -------------------------------------------------------------- strings
\* Python's None, in the place of a digest
None == [md5 |-> <<>>, hexcase |-> "None"]

\* str.lower() on one character
lower_char(c) ==
    IF c = "A" THEN "a" ELSE IF c = "B" THEN "b" ELSE IF c = "D" THEN "d"
    ELSE IF c = "R" THEN "r" ELSE c

\* str.lower()
str_lower(s) == [i \in 1..Len(s) |-> lower_char(s[i])]

\* str.replace("\\", "/")
replace_backslash(s) == [i \in 1..Len(s) |-> IF s[i] = "\\" THEN "/" ELSE s[i]]

\* the native form of a path on the client host: "/" written as "\\"
to_native(s) == [i \in 1..Len(s) |-> IF s[i] = "/" THEN "\\" ELSE s[i]]

\* os.path.join(a, b) on the client host
os_path_join(a, b) == a \o <<"\\">> \o b

\* os.path.relpath(path, start) for a path below start
os_path_relpath(path, start) == SubSeq(path, Len(start) + 2, Len(path))

Digits == <<"0", "1", "2", "3", "4", "5", "6", "7", "8", "9">>

\* str(n) of a non-negative int
RECURSIVE str(_)
str(n) == IF n < 10 THEN <<Digits[n + 1]>> ELSE str(n \div 10) \o <<Digits[(n % 10) + 1]>>

\* a set as a list, in the (arbitrary but fixed) iteration order of the set
RECURSIVE SetToSeq(_)
SetToSeq(S) ==
    IF S = {} THEN <<>>
    ELSE LET x == CHOOSE y \in S : TRUE IN <<x>> \o SetToSeq(S \ {x})

Range(s) == {s[i] : i \in DOMAIN s}

\* -------------------------------------------------------------- the trees
\* relative paths, "/"-separated; two of them differ in letter case only
RelPaths == {<<"d", "/", "a">>, <<"d", "/", "A">>, <<"b">>}

\* byte order of the paths, the order of `git ls-tree` and of `p4 fstat`
PathRank(p) == IF p = <<"b">> THEN 3 ELSE IF p = <<"d", "/", "A">> THEN 1 ELSE 2

\* file contents, as byte sequences
FileContents == {<<"x">>, <<"x", "y">>}

\* perforce file types, as "+"-separated tokens; the depot's typemap
TypeMap(p) == IF p = <<"b">> THEN <<"binary">> ELSE <<"text">>

\* config["source"]["root"] and config["destination"]["root"]
SrcRoot == <<"S">>
DstRoot == <<"R">>

\* -------------------------------------------------------------- digests
\* `sub in file_type`, `file_type.startswith(sub)` on type tokens
type_contains(file_type, tok) == \E i \in DOMAIN file_type : file_type[i] = tok
type_startswith(file_type, tok) == Len(file_type) > 0 /\ file_type[1] = tok

\* bytes.replace(b"\r\n", b"\n")
RECURSIVE replace_crlf(_)
replace_crlf(data) ==
    IF Len(data) = 0 THEN <<>>
    ELSE IF Len(data) >= 2 /\ data[1] = "CR" /\ data[2] = "LF"
         THEN <<"LF">> \o replace_crlf(SubSeq(data, 3, Len(data)))
         ELSE <<data[1]>> \o replace_crlf(Tail(data))

\* the lines of a binary file object: each ends after its "LF"
RECURSIVE split_lines(_)
split_lines(data) ==
    IF Len(data) = 0 THEN <<>>
    ELSE LET ends == {i \in DOMAIN data : data[i] = "LF"}
             n == IF ends = {} THEN Len(data)
                  ELSE CHOOSE i \in ends : \A j \in ends : i <= j
         IN <<SubSeq(data, 1, n)>> \o split_lines(SubSeq(data, n + 1, Len(data)))

\* bytes.decode("utf-8-sig").encode("utf-8"): drops one leading byte order mark
strip_sig(line) == IF Len(line) > 0 /\ line[1] = "BOM" THEN Tail(line) ELSE line

RECURSIVE concat(_)
concat(ss) == IF ss = <<>> THEN <<>> ELSE Head(ss) \o concat(Tail(ss))

\* hashlib.md5 over the bytes fed to it, then hexdigest().upper():
\* the hash is modelled as collision-free, the rendering by its letter case
md5_hexdigest_upper(data) == [md5 |-> data, hexcase |-> "upper"]

\* compute_digest(path, file_type), on the bytes of the file at path
compute_digest(content, file_type) ==
    IF type_contains(file_type, "text")
    THEN md5_hexdigest_upper(replace_crlf(content))
    ELSE IF type_contains(file_type, "utf8")
    THEN LET lines == split_lines(content)
         IN md5_hexdigest_upper(
                concat([i \in DOMAIN lines |-> replace_crlf(strip_sig(lines[i]))]))
    ELSE IF type_contains(file_type, "utf16")
    THEN md5_hexdigest_upper(replace_crlf(strip_sig(content)))
    ELSE md5_hexdigest_upper(content)

\* bytes.replace(b"\r", b"\n")
replace_cr(data) == [i \in DOMAIN data |-> IF data[i] = "CR" THEN "LF" ELSE data[i]]

\* compute_digest(path, file_type) of the older script, p4harmonize-uegit.py:
\* text and utf8 base types alike, CR LF and then every CR replaced in each line
compute_digest_uegit(content, file_type) ==
    IF type_startswith(file_type, "text") \/ type_startswith(file_type, "utf8")
    THEN LET lines == split_lines(content)
         IN md5_hexdigest_upper(
                concat([i \in DOMAIN lines |-> replace_cr(replace_crlf(lines[i]))]))
    ELSE md5_hexdigest_upper(content)

\* -------------------------------------------------------------- records
\* GitFile.__init__
GitFile(root, path, content, is_tracked) ==
    [root |-> root, relative_path |-> path, full_path |-> os_path_join(root, path),
     digest |-> None, is_tracked |-> is_tracked, content |-> content]

\* GitFile.compute_digest: the digest is computed once and kept
GitFile_compute_digest(src, file_type) ==
    IF src.digest = None
    THEN [src EXCEPT !.digest = compute_digest(src.content, file_type)]
    ELSE src

\* P4File.__init__
P4File(fstat, client_root) ==
    [client_path |-> fstat.clientFile, head_type |-> fstat.headType,
     file_size |-> fstat.fileSize, digest |-> fstat.digest,
     relative_path |->
        replace_backslash(os_path_relpath(fstat.clientFile, to_native(client_root)))]

\* -------------------------------------------------------------- state
VARIABLES
    pc,             \* where run() is
    dry_run,        \* P4HarmonizeGit.dry_run
    is_unreal,      \* config["source"]["is_unreal"]: P4HarmonizeGitUnreal
    src_ignore,     \* P4HarmonizeGit.src_ignore: fnmatch patterns
    dst_ignore,     \* P4HarmonizeGit.dst_ignore: fnmatch patterns
    case_sensitive, \* p4_info["clientCase"] != "insensitive"
    client_exists,  \* the destination p4 client exists on the server
    git_tree,       \* the source tree: what `git ls-tree` lists, with contents
    dep_tree,       \* the files .uedependencies names, with contents
    depot,          \* the destination stream's head files
    src_files,      \* P4GitFileDiff.src_files (GitFile objects)
    dst_files,      \* P4GitFileDiff.dst_files (P4File objects)
    src_only,       \* P4GitFileDiff.src_only, as indices into src_files
    dst_only,       \* P4GitFileDiff.dst_only, as indices into dst_files
    case_mismatch,  \* P4GitFileDiff.case_mismatch, as <<src index, dst index>>
    changed,        \* P4GitFileDiff.changed, as <<src index, dst index>>
    io,             \* what compare read: [stat, digest], sets of src indices
    ncompare,       \* how many times compare() has run on the diff
    pool,           \* the thread pool of a compare() that is under way
    workspace,      \* files copied below the destination root: path -> content
    opened,         \* the files opened (staged) on the destination client
    log,            \* the operations run() issued, in order
    error           \* why run() stopped early, "" when it did not

vars == <<pc, dry_run, is_unreal, src_ignore, dst_ignore, case_sensitive, client_exists, git_tree, dep_tree,
          depot, src_files, dst_files, src_only, dst_only, case_mismatch, changed,
          io, ncompare, pool, workspace, opened, log, error>>

diff_vars == <<src_files, dst_files, src_only, dst_only, case_mismatch, changed,
               io, ncompare, pool>>
env_vars == <<dry_run, is_unreal, src_ignore, dst_ignore, case_sensitive, git_tree,
              dep_tree>>

\* no compare() is under way: no thread, no task, no result
NoPool ==
    [tasks |-> <<>>, queue |-> <<>>, workers |-> <<>>, results |-> <<>>,
     order |-> <<>>, next |-> 1, writes |-> <<>>]

\* -------------------------------------------------------------- P4GitFileDiff
\* {f.relative_path.lower(): f for f in files}: a later file replaces an
\* earlier one with the same key. The dict maps the key to the file's index.
path_map(files) ==
    [k \in {str_lower(files[i].relative_path) : i \in DOMAIN files} |->
        CHOOSE i \in DOMAIN files :
            /\ str_lower(files[i].relative_path) = k
            /\ \A j \in DOMAIN files :
                  str_lower(files[j].relative_path) = k => j <= i]

\* a plausible slip: every path of the first tree counts as exclusive
exclusive_all(a_paths, b_paths) == a_paths

\* compare(): src_paths - dst_paths, dst_paths - src_paths
exclusive(a_paths, b_paths) == a_paths \ b_paths

\* os.stat(src.full_path).st_size
st_size(src) == Len(src.content)

\* a plausible slip: the size check comes before the check of the case
compare_matching_size_first(src, dst) ==
    IF type_startswith(dst.head_type, "binary") /\ str(st_size(src)) # dst.file_size
    THEN [case_differs |-> FALSE, content_differs |-> TRUE, src |-> src,
          stat |-> TRUE, digest |-> FALSE]
    ELSE IF src.relative_path # dst.relative_path
    THEN [case_differs |-> TRUE, content_differs |-> FALSE, src |-> src,
          stat |-> type_startswith(dst.head_type, "binary"), digest |-> FALSE]
    ELSE LET src2 == GitFile_compute_digest(src, dst.head_type)
         IN [case_differs |-> FALSE, content_differs |-> src2.digest # dst.digest,
             src |-> src2, stat |-> type_startswith(dst.head_type, "binary"),
             digest |-> src.digest = None]

\* a plausible slip: no size check, every pair of one spelling is digested
compare_matching_no_size_check(src, dst) ==
    IF src.relative_path # dst.relative_path
    THEN [case_differs |-> TRUE, content_differs |-> FALSE, src |-> src,
          stat |-> FALSE, digest |-> FALSE]
    ELSE LET src2 == GitFile_compute_digest(src, dst.head_type)
         IN [case_differs |-> FALSE, content_differs |-> src2.digest # dst.digest,
             src |-> src2, stat |-> FALSE, digest |-> src.digest = None]

\* a plausible slip: the source is digested as binary, whatever the head type
compare_matching_binary_digest(src, dst) ==
    IF src.relative_path # dst.relative_path
    THEN [case_differs |-> TRUE, content_differs |-> FALSE, src |-> src,
          stat |-> FALSE, digest |-> FALSE]
    ELSE IF type_startswith(dst.head_type, "binary") /\ str(st_size(src)) # dst.file_size
    THEN [case_differs |-> FALSE, content_differs |-> TRUE, src |-> src,
          stat |-> TRUE, digest |-> FALSE]
    ELSE LET src2 == GitFile_compute_digest(src, <<"binary">>)
         IN [case_differs |-> FALSE, content_differs |-> src2.digest # dst.digest,
             src |-> src2, stat |-> type_startswith(dst.head_type, "binary"),
             digest |-> src.digest = None]

\* P4GitFileDiff.compare_matching((src, dst)): the result tuple, the GitFile
\* after the call, and whether the file was stat-ed and digested
compare_matching(src, dst) ==
    IF src.relative_path # dst.relative_path
    THEN [case_differs |-> TRUE, content_differs |-> FALSE, src |-> src,
          stat |-> FALSE, digest |-> FALSE]
    ELSE IF type_startswith(dst.head_type, "binary") /\ str(st_size(src)) # dst.file_size
    THEN [case_differs |-> FALSE, content_differs |-> TRUE, src |-> src,
          stat |-> TRUE, digest |-> FALSE]
    ELSE LET src2 == GitFile_compute_digest(src, dst.head_type)
         IN [case_differs |-> FALSE, content_differs |-> src2.digest # dst.digest,
             src |-> src2, stat |-> type_startswith(dst.head_type, "binary"),
             digest |-> src.digest = None]

\* a plausible slip: every pair is handed to the workers twice
same_paths_twice(src_map, dst_map) ==
    LET once == SetToSeq({<<src_map[p], dst_map[p]>> : p \in DOMAIN src_map \cap DOMAIN dst_map})
    IN once \o once

\* compare(): same_paths, the two indexed files of every shared key
same_paths(src_map, dst_map) ==
    SetToSeq({<<src_map[p], dst_map[p]>> : p \in DOMAIN src_map \cap DOMAIN dst_map})

\* the body of P4GitFileDiff.compare on the object d = [src_files, ..., changed]:
\* src_only and dst_only are assigned, case_mismatch and changed are appended to
compare(d) ==
    LET src_map == path_map(d.src_files)
        dst_map == path_map(d.dst_files)
        src_paths == DOMAIN src_map
        dst_paths == DOMAIN dst_map
        pairs == same_paths(src_map, dst_map)
        result == [i \in DOMAIN pairs |->
                      compare_matching(d.src_files[pairs[i][1]],
                                       d.dst_files[pairs[i][2]])]
        mism == SelectSeq([i \in DOMAIN pairs |-> i],
                          LAMBDA i : result[i].case_differs)
        chg == SelectSeq([i \in DOMAIN pairs |-> i],
                         LAMBDA i : ~result[i].case_differs /\ result[i].content_differs)
        compared(si) == {i \in DOMAIN pairs : pairs[i][1] = si}
    IN [src_files |-> [si \in DOMAIN d.src_files |->
                          IF compared(si) = {} THEN d.src_files[si]
                          ELSE result[CHOOSE i \in compared(si) : TRUE].src],
        dst_files |-> d.dst_files,
        src_only |-> SetToSeq({src_map[p] : p \in exclusive(src_paths, dst_paths)}),
        dst_only |-> SetToSeq({dst_map[p] : p \in exclusive(dst_paths, src_paths)}),
        case_mismatch |-> d.case_mismatch \o [i \in DOMAIN mism |-> pairs[mism[i]]],
        changed |-> d.changed \o [i \in DOMAIN chg |-> pairs[chg[i]]],
        stat |-> {pairs[i][1] : i \in {j \in DOMAIN pairs : result[j].stat}},
        digest |-> {pairs[i][1] : i \in {j \in DOMAIN pairs : result[j].digest}}]

\* P4GitFileDiff.__init__: empty result lists, then compare()
P4GitFileDiff(srcs, dsts) ==
    compare([src_files |-> srcs, dst_files |-> dsts, src_only |-> <<>>,
             dst_only |-> <<>>, case_mismatch |-> <<>>, changed |-> <<>>])

\* P4GitFileDiff.has_difference
has_difference(d) == (d.changed # <<>>) \/ (d.src_only # <<>>) \/ (d.dst_only # <<>>)

\* the diff object held in the state
self_diff ==
    [src_files |-> src_files, dst_files |-> dst_files, src_only |-> src_only,
     dst_only |-> dst_only, case_mismatch |-> case_mismatch, changed |-> changed]

\* -------------------------------------------------------------- the destination
\* what the server stores for a file of a type: text is stored with LF line ends
server_form(content, head_type) ==
    IF type_contains(head_type, "text") THEN replace_crlf(content) ELSE content

\* the digest the server reports: MD5 of the stored form, in upper-case hex
server_digest(stored) == [md5 |-> stored, hexcase |-> "upper"]

\* one record of `p4 fstat -Ol -T clientFile,headType,fileSize,digest`
fstat_of(f) ==
    [clientFile |-> os_path_join(to_native(DstRoot), to_native(f.path)),
     headType |-> f.head_type, fileSize |-> str(Len(f.content)),
     digest |-> server_digest(f.content)]

\* the path of a client file relative to the client root, "/"-separated
client_rel(path) == replace_backslash(os_path_relpath(path, DstRoot))

\* a set of depot files as the depot lists them: in byte order of the path
RECURSIVE in_depot_order(_)
in_depot_order(S) ==
    IF S = {} THEN <<>>
    ELSE LET f == CHOOSE g \in S : \A h \in S : PathRank(g.path) <= PathRank(h.path)
         IN <<f>> \o in_depot_order(S \ {f})

\* -------------------------------------------------------------- P4HarmonizeGit
\* one line of the log: an operation, the files it is given, which of them are
\* arguments on its command line, whether it was executed (not only logged)
\* and its result code
Op(via, op, files, executed, rc) ==
    [via |-> via, op |-> op, files |-> files, on_cmdline |-> files,
     executed |-> executed, rc |-> rc]

\* P4HarmonizeGit.get_dst_path
get_dst_path(src) == replace_backslash(os_path_join(DstRoot, src.relative_path))

\* P4HarmonizeGit.list_git_files
list_git_files(tree) ==
    [i \in DOMAIN tree |-> GitFile(SrcRoot, tree[i].path, tree[i].content, TRUE)]

\* P4HarmonizeGitUnreal.get_ue_dependencies, when .uedependencies exists
get_ue_dependencies(tree) ==
    [i \in DOMAIN tree |-> GitFile(SrcRoot, tree[i].path, tree[i].content, FALSE)]

\* P4HarmonizeGit.get_src_files / P4HarmonizeGitUnreal.get_src_files
get_src_files ==
    IF is_unreal THEN list_git_files(git_tree) \o get_ue_dependencies(dep_tree)
    ELSE list_git_files(git_tree)

\* P4HarmonizeGit.list_p4_files / get_dst_files
get_dst_files == [i \in DOMAIN depot |-> P4File(fstat_of(depot[i]), DstRoot)]

\* os.path.normcase on the client host: lower case, "/" written as "\\"
normcase(s) == to_native(str_lower(s))

\* fnmatch.fnmatchcase(name, pat): "*" stands for any characters, "?" for one
RECURSIVE fnmatchcase(_, _)
fnmatchcase(name, pat) ==
    IF pat = <<>> THEN name = <<>>
    ELSE IF Head(pat) = "*"
    THEN \E k \in 0..Len(name) : fnmatchcase(SubSeq(name, k + 1, Len(name)), Tail(pat))
    ELSE /\ name # <<>>
         /\ Head(pat) = "?" \/ Head(pat) = Head(name)
         /\ fnmatchcase(Tail(name), Tail(pat))

\* fnmatch.fnmatch(name, pat): both are normalized first
fnmatch(name, pat) == fnmatchcase(normcase(name), normcase(pat))

\* P4HarmonizeGit.should_ignore_src / should_ignore_dst
should_ignore(f, patterns) ==
    \E i \in DOMAIN patterns : fnmatch(f.relative_path, patterns[i])

\* a plausible slip: the destination files are compared without the ignores
kept_dst_files_all(files) == files

\* get_diff: the source files and the destination files after the ignores
kept_src_files(files) == SelectSeq(files, LAMBDA f : ~should_ignore(f, src_ignore))
kept_dst_files(files) == SelectSeq(files, LAMBDA f : ~should_ignore(f, dst_ignore))

\* run(): files_to_add, files_to_edit, files_to_copy (GitFile indices)
files_to_add(d) == d.src_only
files_to_edit(d) == [i \in DOMAIN d.changed |-> d.changed[i][1]]

\* a plausible slip: only the new files are copied
files_to_copy_add_only(d) == files_to_add(d)

files_to_copy(d) == files_to_add(d) \o files_to_edit(d)

\* run(): files_to_delete, a set of client paths
files_to_delete(d, sensitive) ==
    {d.dst_files[d.dst_only[i]].client_path : i \in DOMAIN d.dst_only}
    \cup (IF d.case_mismatch # <<>> /\ ~sensitive
          THEN {d.dst_files[d.case_mismatch[i][2]].client_path : i \in DOMAIN d.case_mismatch}
          ELSE {})

\* run(): the edit and the move of every case mismatch, in order
case_moves(d) ==
    concat([i \in DOMAIN d.case_mismatch |->
        LET src == d.src_files[d.case_mismatch[i][1]]
            dst == d.dst_files[d.case_mismatch[i][2]]
        IN <<Op("p4_run", "edit", <<dst.client_path>>, TRUE, 0),
             Op("p4_run", "move", <<dst.client_path, get_dst_path(src)>>, TRUE, 0)>>])

\* -------------------------------------------------------------- initial states
\* a tree lists [path, content] files; git and the depot list each path once,
\* in byte order
Listed(Contents) == [path : RelPaths, content : Contents]

InOrder(f) == \A i, j \in DOMAIN f : i < j => PathRank(f[i].path) < PathRank(f[j].path)

GitTrees(Contents) ==
    UNION {{f \in [1..n -> Listed(Contents)] : InOrder(f)} : n \in 0..MaxSrc}

\* the dependency files are not tracked by git, and are named once
DepTrees(git, Contents) ==
    UNION {{f \in [1..n -> Listed(Contents)] :
                /\ \A i \in 1..n : \A k \in DOMAIN git : f[i].path # git[k].path
                /\ \A i, j \in 1..n : i # j => f[i].path # f[j].path}
           : n \in 0..MaxDeps}

\* a case-insensitive server holds no two paths that differ in case only
\* the head types a depot file of a path can have
HeadTypes == {<<"text">>, <<"binary">>}
Typed(path, mapped) == IF mapped THEN {TypeMap(path)} ELSE HeadTypes

Depots(sensitive, Contents, mapped) ==
    LET Files == UNION {{[path |-> f.path, head_type |-> t, content |-> f.content]
                          : t \in Typed(f.path, mapped)} : f \in Listed(Contents)}
    IN UNION {{f \in [1..n -> Files] :
                  /\ InOrder(f)
                  /\ sensitive \/ \A i, j \in 1..n :
                        i # j => str_lower(f[i].path) # str_lower(f[j].path)}
              : n \in 0..MaxDst}

Init ==
    /\ pc = "start"
    /\ dry_run \in BOOLEAN
    /\ is_unreal \in BOOLEAN
    \* the config sets no ignore list, and no default pattern matches a path
    /\ src_ignore = <<>>
    /\ dst_ignore = <<>>
    /\ case_sensitive \in BOOLEAN
    /\ client_exists \in BOOLEAN
    /\ git_tree \in GitTrees(FileContents)
    /\ dep_tree \in (IF is_unreal THEN DepTrees(git_tree, FileContents) ELSE {<<>>})
    /\ depot \in Depots(case_sensitive, FileContents, TRUE)
    /\ src_files = <<>>
    /\ dst_files = <<>>
    /\ src_only = <<>>
    /\ dst_only = <<>>
    /\ case_mismatch = <<>>
    /\ changed = <<>>
    /\ io = [stat |-> {}, digest |-> {}]
    /\ ncompare = 0
    /\ pool = NoPool
    /\ workspace = {}
    /\ opened = {}
    /\ log = <<>>
    /\ error = ""

\* -------------------------------------------------------------- run()
\* sys.exit(1) after LOG.error
Exit(why) == pc' = "exit" /\ error' = why

\* an exception leaves run()
Raise(why) == pc' = "raised" /\ error' = why

\* run_validate: ensure_dst_p4_client_doesnt_exist (the `clients -e` query is
\* only logged in a dry run, and then finds nothing), then the root check
RunValidate ==
    /\ pc = "start"
    /\ log' = Append(log, Op("p4_run", "clients", <<>>, ~dry_run, 0))
    /\ \E root_not_empty \in BOOLEAN :
          IF ~dry_run /\ client_exists THEN Exit("client exists")
          ELSE IF root_not_empty THEN Exit("root not empty")
          ELSE pc' = "validated" /\ error' = error
    /\ UNCHANGED <<env_vars, client_exists, depot, diff_vars, workspace, opened>>

\* pre_run: P4HarmonizeGitUnreal runs GitDependencies.exe unless in a dry run;
\* the result of the subprocess is not looked at
PreRun ==
    /\ pc = "validated"
    /\ IF is_unreal /\ ~dry_run
       THEN \E exe_exists \in BOOLEAN :
               IF exe_exists
               THEN /\ log' = Append(log, Op("subprocess", "GitDependencies", <<>>, TRUE, 0))
                    /\ pc' = "pre_run" /\ error' = error
               ELSE Exit("GitDependencies.exe not found") /\ log' = log
       ELSE pc' = "pre_run" /\ error' = error /\ log' = log
    /\ UNCHANGED <<env_vars, client_exists, depot, diff_vars, workspace, opened>>

\* create_dest_p4_client: `client -o` returns None in a dry run, and None[0]
\* raises; otherwise the client spec is saved
CreateClient ==
    /\ pc = "pre_run"
    /\ IF dry_run
       THEN /\ log' = Append(log, Op("p4_run", "client -o", <<>>, FALSE, 0))
            /\ Raise("TypeError")
            /\ client_exists' = client_exists
       ELSE \E ok \in BOOLEAN :
               IF ok
               THEN /\ log' = log \o <<Op("p4_run", "client -o", <<>>, TRUE, 0),
                                       Op("p4", "save_client", <<>>, TRUE, 0)>>
                    /\ client_exists' = TRUE
                    /\ pc' = "client" /\ error' = error
               ELSE /\ log' = log \o <<Op("p4_run", "client -o", <<>>, TRUE, 0),
                                       Op("p4", "save_client", <<>>, TRUE, 1)>>
                    /\ client_exists' = client_exists
                    /\ Raise("P4Exception")
    /\ UNCHANGED <<env_vars, depot, diff_vars, workspace, opened>>

\* get_diff: the source listing (with the dependency files for Unreal, unless
\* .uedependencies is missing), the `fstat` of the stream, and the comparison.
\* The files that match a pattern of the ignore lists are left out of both.
\* os.stat or the read of a source file can fail in a worker of compare():
\* executor.map raises the worker's exception in the calling thread, nothing
\* catches it, and the diff object is never returned.
GetDiff ==
    /\ pc = "client"
    /\ \E deps_file_exists \in BOOLEAN :
          IF is_unreal /\ ~deps_file_exists
          THEN /\ Exit(".uedependencies not found")
               /\ log' = log
               /\ UNCHANGED diff_vars
          ELSE \E d \in {P4GitFileDiff(kept_src_files(get_src_files),
                                        kept_dst_files(get_dst_files))} :
               \E io_error \in (IF d.stat \cup d.digest = {} THEN {FALSE} ELSE BOOLEAN) :
                  /\ log' = Append(log, Op("p4_run", "fstat", <<>>, TRUE, 0))
                  /\ IF io_error
                     THEN Raise("OSError in compare") /\ UNCHANGED diff_vars
                     ELSE /\ src_files' = d.src_files
                          /\ dst_files' = d.dst_files
                          /\ src_only' = d.src_only
                          /\ dst_only' = d.dst_only
                          /\ case_mismatch' = d.case_mismatch
                          /\ changed' = d.changed
                          /\ io' = [stat |-> d.stat, digest |-> d.digest]
                          /\ ncompare' = 1
                          /\ pool' = pool
                          /\ pc' = "diffed" /\ error' = error
    /\ UNCHANGED <<env_vars, client_exists, depot, workspace, opened>>

\* run(): nothing to do when has_difference() is false
NoDifference ==
    /\ pc = "diffed"
    /\ ~has_difference(self_diff)
    /\ pc' = "done"
    /\ UNCHANGED <<env_vars, client_exists, depot, diff_vars, workspace, opened, log, error>>

\* run(): p4 flush of the stream; p4_run raises when p4 reports an error
Flush ==
    /\ pc = "diffed"
    /\ has_difference(self_diff)
    /\ \E ok \in BOOLEAN :
          /\ log' = Append(log, Op("p4_run", "flush", <<>>, TRUE, IF ok THEN 0 ELSE 1))
          /\ IF ok THEN pc' = "flushed" /\ error' = error ELSE Raise("P4Exception")
    /\ UNCHANGED <<env_vars, client_exists, depot, diff_vars, workspace, opened>>

\* the workspace after the files of `done` (positions of fs) are copied to it
copied_to(ws, fs, done) ==
    LET new == {[path |-> get_dst_path(src_files[fs[i]]),
                 content |-> src_files[fs[i]].content] : i \in done}
    IN {w \in ws : \A n \in new : n.path # w.path} \cup new

\* the log line of the copies of `done`, in the order of fs
copy_op(fs, done, executed, rc) ==
    LET at == SelectSeq([i \in DOMAIN fs |-> i], LAMBDA i : i \in done)
    IN Op("shutil", "copy2", [k \in DOMAIN at |-> get_dst_path(src_files[fs[at[k]]])],
          executed, rc)

\* a plausible slip: a copy that fails is skipped and the run goes on
Copy_swallow_errors ==
    /\ pc = "flushed"
    /\ LET fs == files_to_copy(self_diff)
       IN \E bad \in SUBSET (IF dry_run THEN {} ELSE DOMAIN fs) :
             /\ workspace' = IF dry_run THEN workspace
                              ELSE copied_to(workspace, fs, DOMAIN fs \ bad)
             /\ log' = Append(log, copy_op(fs, DOMAIN fs \ bad, ~dry_run,
                                           IF bad = {} THEN 0 ELSE 1))
             /\ error' = IF bad = {} THEN error ELSE "OSError in copy"
    /\ pc' = "copied"
    /\ UNCHANGED <<env_vars, client_exists, depot, diff_vars, opened>>

\* list(executor.map(copy_file_to_dst, files_to_copy)): every file is copied,
\* or the copy of one fails (nothing is copied in a dry run, so nothing fails):
\* the exception of the worker is raised in run() and nothing catches it. Any
\* of the other files may have been copied by then.
Copy ==
    /\ pc = "flushed"
    /\ LET fs == files_to_copy(self_diff)
       IN \/ /\ workspace' = IF dry_run THEN workspace
                               ELSE copied_to(workspace, fs, DOMAIN fs)
             /\ log' = Append(log, copy_op(fs, DOMAIN fs, ~dry_run, 0))
             /\ pc' = "copied" /\ error' = error
          \/ /\ ~dry_run
             /\ \E bad \in DOMAIN fs : \E done \in SUBSET (DOMAIN fs \ {bad}) :
                   /\ workspace' = copied_to(workspace, fs, done)
                   /\ log' = Append(log, copy_op(fs, done, TRUE, 1))
             /\ Raise("OSError in copy")
    /\ UNCHANGED <<env_vars, client_exists, depot, diff_vars, opened>>

\* the effect of a batch `p4 -x file <action>` on the client's opened files
open_files(action, paths) == {[action |-> action, path |-> client_rel(q), from |-> <<>>] : q \in paths}

\* run(): the case mismatches. On a case-sensitive server each is opened for
\* edit and moved to the source's spelling (p4 refuses a move onto a depot
\* file, and p4_run raises); otherwise they are only warned about here.
CaseMismatch ==
    /\ pc = "copied"
    /\ IF case_mismatch # <<>> /\ case_sensitive
       THEN LET moves == case_moves(self_diff)
                taken == \E i \in DOMAIN case_mismatch : \E k \in DOMAIN depot :
                            depot[k].path = src_files[case_mismatch[i][1]].relative_path
            IN \E ok \in BOOLEAN :
                  IF ok /\ ~taken
                  THEN /\ log' = log \o moves
                       /\ opened' = opened \cup
                            {[action |-> "move",
                              path |-> src_files[case_mismatch[i][1]].relative_path,
                              from |-> dst_files[case_mismatch[i][2]].relative_path]
                                : i \in DOMAIN case_mismatch}
                       /\ pc' = "renamed" /\ error' = error
                  ELSE /\ log' = log \o <<moves[1], [moves[2] EXCEPT !.rc = 1]>>
                       /\ opened' = opened
                       /\ Raise("P4Exception")
       ELSE /\ log' = IF case_mismatch # <<>>
                      THEN Append(log, Op("LOG", "warning", <<>>, TRUE, 0))
                      ELSE log
            /\ opened' = opened
            /\ pc' = "renamed" /\ error' = error
    /\ UNCHANGED <<env_vars, client_exists, depot, diff_vars, workspace>>

\* a plausible slip: the files of a batch are arguments of the p4 command
Batch_on_cmdline(at, action, files, next) ==
    /\ pc = at
    /\ IF files # <<>>
       THEN \E rc \in {0, 1} :
               /\ log' = Append(log, Op("p4_cmd_batch", action, files, ~dry_run, rc))
               /\ opened' = IF rc = 0 /\ ~dry_run
                            THEN opened \cup open_files(action, Range(files))
                            ELSE opened
       ELSE log' = log /\ opened' = opened
    /\ pc' = next
    /\ UNCHANGED <<env_vars, client_exists, depot, diff_vars, workspace, error>>

\* p4_cmd_batch(args, files, prefix) when files is not empty: all the files are
\* written to one temporary file, one line each, and one `p4 -x <tmpfile>
\* <action>` is run (or only logged, in a dry run); the command line names no
\* file of the batch. The command's result (rc) is dropped, and run() goes on
\* to `next` whatever it was
Batch(at, action, files, next) ==
    /\ pc = at
    /\ IF files # <<>>
       THEN \E rc \in {0, 1} :
               /\ log' = Append(log, [Op("p4_cmd_batch", action, files, ~dry_run, rc)
                                         EXCEPT !.on_cmdline = <<>>])
               /\ opened' = IF rc = 0 /\ ~dry_run
                            THEN opened \cup open_files(action, Range(files))
                            ELSE opened
       ELSE log' = log /\ opened' = opened
    /\ pc' = next
    /\ UNCHANGED <<env_vars, client_exists, depot, diff_vars, workspace, error>>

\* run(): if files_to_delete: p4_cmd_batch(["delete"], ...)
Delete ==
    Batch("renamed", "delete", SetToSeq(files_to_delete(self_diff, case_sensitive)), "deleted")

\* a plausible slip: the add batch is issued ahead of the delete batch
AddBeforeDelete ==
    /\ \A i \in DOMAIN log : ~(log[i].via = "p4_cmd_batch" /\ log[i].op = "add")
    /\ Batch("renamed", "add",
             [i \in DOMAIN files_to_add(self_diff) |->
                 get_dst_path(src_files[files_to_add(self_diff)[i]])],
             "renamed")

\* run(): if files_to_add: p4_cmd_batch(["add"], ...)
Add ==
    Batch("deleted", "add",
          [i \in DOMAIN files_to_add(self_diff) |->
              get_dst_path(src_files[files_to_add(self_diff)[i]])],
          "added")

\* run(): if files_to_edit: p4_cmd_batch(["edit"], ...)
Edit ==
    Batch("added", "edit",
          [i \in DOMAIN files_to_edit(self_diff) |->
              get_dst_path(src_files[files_to_edit(self_diff)[i]])],
          "edited")

\* `p4 revert -a`: a file opened for edit whose workspace copy is what the
\* depot holds is closed again
unchanged_edits ==
    {o \in opened :
        /\ o.action = "edit"
        /\ \E k \in DOMAIN depot : \E w \in workspace :
              /\ depot[k].path = o.path
              /\ w.path = get_dst_path([relative_path |-> o.path])
              /\ server_form(w.content, depot[k].head_type) = depot[k].content}

\* a plausible slip: the unchanged files are reverted only after an edit batch
Revert_only_after_edit ==
    /\ pc = "edited"
    /\ IF changed # <<>>
       THEN \E ok \in BOOLEAN :
               /\ log' = Append(log, Op("p4_run", "revert -a", <<>>, ~dry_run,
                                        IF ok THEN 0 ELSE 1))
               /\ IF ok
                  THEN /\ opened' = IF dry_run THEN opened ELSE opened \ unchanged_edits
                       /\ pc' = "done" /\ error' = error
                  ELSE opened' = opened /\ Raise("P4Exception")
       ELSE log' = log /\ opened' = opened /\ pc' = "done" /\ error' = error
    /\ UNCHANGED <<env_vars, client_exists, depot, diff_vars, workspace>>

\* run(): p4_run(["revert", "-a"]), then post_run and the closing log lines
Revert ==
    /\ pc = "edited"
    /\ \E ok \in BOOLEAN :
          /\ log' = Append(log, Op("p4_run", "revert -a", <<>>, ~dry_run, IF ok THEN 0 ELSE 1))
          /\ IF ok
             THEN /\ opened' = IF dry_run THEN opened ELSE opened \ unchanged_edits
                  /\ pc' = "done" /\ error' = error
             ELSE opened' = opened /\ Raise("P4Exception")
    /\ UNCHANGED <<env_vars, client_exists, depot, diff_vars, workspace>>

\* -------------------------------------------------------------- clean()
\* a plausible slip: the destination root is removed in a dry run too
Clean_rmtree_unguarded ==
    /\ pc = "start"
    /\ \E root_is_dir \in BOOLEAN :
          /\ log' = log \o <<Op("p4_run", "clients", <<>>, ~dry_run, 0)>>
                        \o (IF root_is_dir
                            THEN <<Op("shutil", "rmtree", <<DstRoot>>, TRUE, 0)>> ELSE <<>>)
          /\ workspace' = IF root_is_dir THEN {} ELSE workspace
    /\ pc' = "cleaned"
    /\ UNCHANGED <<env_vars, client_exists, depot, diff_vars, opened, error>>

\* clean(), the other command of the tool, on a destination as it is found.
\* delete_p4_client: the `clients -e` query is only logged in a dry run and
\* then finds nothing; a client that is found is deleted with `client -df`.
\* Then the destination root, when it is a directory, is removed, but in a
\* dry run.
Clean ==
    /\ pc = "start"
    /\ \E root_is_dir \in BOOLEAN : \E ok \in BOOLEAN :
          LET found == ~dry_run /\ client_exists
              query == <<Op("p4_run", "clients", <<>>, ~dry_run, 0)>>
              delete == IF found
                        THEN <<Op("p4_run", "client -df", <<>>, TRUE, IF ok THEN 0 ELSE 1)>>
                        ELSE <<>>
              rmtree == IF root_is_dir
                        THEN <<Op("shutil", "rmtree", <<DstRoot>>, ~dry_run, 0)>>
                        ELSE <<>>
          IN IF found /\ ~ok
             THEN /\ log' = log \o query \o delete
                  /\ client_exists' = client_exists
                  /\ workspace' = workspace
                  /\ Raise("P4Exception")
             ELSE /\ log' = log \o query \o delete \o rmtree
                  /\ client_exists' = (client_exists /\ ~found)
                  /\ workspace' = IF root_is_dir /\ ~dry_run THEN {} ELSE workspace
                  /\ pc' = "cleaned" /\ error' = error
    /\ UNCHANGED <<env_vars, depot, diff_vars, opened>>

\* -------------------------------------------------------------- after run()
\* the user submits what run() staged: the depot after the opened files are
\* applied to it
submitted_depot ==
    LET gone == {o.path : o \in {x \in opened : x.action \in {"delete", "edit"}}}
                \cup {o.from : o \in {x \in opened : x.action = "move"}}
        kept == {f \in Range(depot) : f.path \notin gone}
        copy_of(path) == CHOOSE w \in workspace : w.path = get_dst_path([relative_path |-> path])
        has_copy(path) == \E w \in workspace : w.path = get_dst_path([relative_path |-> path])
        head(path) == CHOOSE f \in Range(depot) : f.path = path
        added == {[path |-> o.path, head_type |-> TypeMap(o.path),
                   content |-> server_form(copy_of(o.path).content, TypeMap(o.path))]
                    : o \in {x \in opened : x.action = "add" /\ has_copy(x.path)}}
        edited == {[path |-> o.path, head_type |-> head(o.path).head_type,
                    content |-> IF has_copy(o.path)
                                THEN server_form(copy_of(o.path).content, head(o.path).head_type)
                                ELSE head(o.path).content]
                    : o \in {x \in opened : x.action = "edit"}}
        moved == {[path |-> o.path, head_type |-> head(o.from).head_type,
                   content |-> head(o.from).content]
                    : o \in {x \in opened : x.action = "move"}}
    IN in_depot_order(kept \cup added \cup edited \cup moved)

Submit ==
    /\ pc = "done"
    /\ depot' = submitted_depot
    /\ opened' = {}
    /\ pc' = "submitted"
    /\ UNCHANGED <<env_vars, client_exists, diff_vars, workspace, log, error>>

Next ==
    \/ RunValidate
    \/ PreRun
    \/ CreateClient
    \/ GetDiff
    \/ NoDifference
    \/ Flush
    \/ Copy
    \/ CaseMismatch
    \/ Delete
    \/ Add
    \/ Edit
    \/ Revert
    \/ Clean
    \/ Submit

Spec == Init /\ [][Next]_vars

\* -------------------------------------------------------------- ignore lists
\* run() with config["source"]["ignore"] and config["destination"]["ignore"]
\* set: lists of fnmatch patterns over the relative paths
IgnoreLists == {<<>>, <<<<"b">>>>, <<<<"D", "/", "*">>>>, <<<<"b">>, <<"d", "/", "?">>>>}

InitIgnore ==
    /\ pc = "start"
    /\ dry_run = FALSE
    /\ is_unreal = FALSE
    /\ src_ignore \in IgnoreLists
    /\ dst_ignore \in IgnoreLists
    /\ case_sensitive \in BOOLEAN
    /\ client_exists = FALSE
    /\ git_tree \in GitTrees({<<"x">>})
    /\ dep_tree = <<>>
    /\ depot \in Depots(case_sensitive, FileContents, TRUE)
    /\ src_files = <<>>
    /\ dst_files = <<>>
    /\ src_only = <<>>
    /\ dst_only = <<>>
    /\ case_mismatch = <<>>
    /\ changed = <<>>
    /\ io = [stat |-> {}, digest |-> {}]
    /\ ncompare = 0
    /\ pool = NoPool
    /\ workspace = {}
    /\ opened = {}
    /\ log = <<>>
    /\ error = ""

SpecIgnore == InitIgnore /\ [][Next]_vars

\* -------------------------------------------------------------- a diff object
\* A P4GitFileDiff on its own: built by its constructor from a source listing
\* and a depot, then compare() is called on it again.
MaxCompare == 2

\* source contents: two of one size that differ, and one of another size that
\* ends its line with CR LF; the depot stores a text file with LF line ends
CompareContents == {<<"x">>, <<"y">>, <<"CR", "LF">>}
CompareDepotContents == {<<"x">>, <<"LF">>}

InitCompare ==
    /\ pc = "diff"
    /\ dry_run = FALSE
    /\ is_unreal = FALSE
    /\ src_ignore = <<>>
    /\ dst_ignore = <<>>
    /\ case_sensitive \in BOOLEAN
    /\ client_exists = TRUE
    /\ git_tree \in GitTrees(CompareContents)
    /\ dep_tree = <<>>
    /\ depot \in Depots(case_sensitive, CompareDepotContents, FALSE)
    /\ \E d \in {P4GitFileDiff(get_src_files, get_dst_files)} :
          /\ src_files = d.src_files
          /\ dst_files = d.dst_files
          /\ src_only = d.src_only
          /\ dst_only = d.dst_only
          /\ case_mismatch = d.case_mismatch
          /\ changed = d.changed
          /\ io = [stat |-> d.stat, digest |-> d.digest]
    /\ ncompare = 1
    /\ pool = NoPool
    /\ workspace = {}
    /\ opened = {}
    /\ log = <<>>
    /\ error = ""

\* P4GitFileDiff.compare(), called on the object as it is
Compare ==
    /\ pc = "diff"
    /\ ncompare < MaxCompare
    /\ \E d \in {compare(self_diff)} :
          /\ src_files' = d.src_files
          /\ dst_files' = d.dst_files
          /\ src_only' = d.src_only
          /\ dst_only' = d.dst_only
          /\ case_mismatch' = d.case_mismatch
          /\ changed' = d.changed
          /\ io' = [stat |-> io.stat \cup d.stat, digest |-> io.digest \cup d.digest]
    /\ ncompare' = ncompare + 1
    /\ UNCHANGED <<pc, env_vars, client_exists, depot, pool, workspace, opened, log, error>>

NextCompare == Compare

SpecCompare == InitCompare /\ [][NextCompare]_vars

\* -------------------------------------------------------------- two digests
\* Two source files of one head type, digested by one of the two scripts.
MaxBytes == 2

\* the bytes of a file: a letter, the two line-end bytes, a byte order mark
Bytes == {"x", "CR", "LF", "BOM"}
DigestContents == UNION {[1..n -> Bytes] : n \in 0..MaxBytes}
DigestTypes == {<<"text">>, <<"utf8">>, <<"utf16">>, <<"binary">>}
Scripts == {"p4harmonize-git-ue", "p4harmonize-uegit"}

InitDigest ==
    /\ pc \in Scripts
    /\ dry_run = FALSE
    /\ is_unreal = FALSE
    /\ src_ignore = <<>>
    /\ dst_ignore = <<>>
    /\ case_sensitive = TRUE
    /\ client_exists = TRUE
    /\ \E c1, c2 \in DigestContents :
          git_tree = <<[path |-> <<"d", "/", "a">>, content |-> c1],
                       [path |-> <<"b">>, content |-> c2]>>
    /\ dep_tree = <<>>
    /\ \E t \in DigestTypes :
          depot = <<[path |-> <<"d", "/", "a">>, head_type |-> t, content |-> <<>>],
                    [path |-> <<"b">>, head_type |-> t, content |-> <<>>]>>
    /\ src_files = get_src_files
    /\ dst_files = get_dst_files
    /\ src_only = <<>>
    /\ dst_only = <<>>
    /\ case_mismatch = <<>>
    /\ changed = <<>>
    /\ io = [stat |-> {}, digest |-> {}]
    /\ ncompare = 0
    /\ pool = NoPool
    /\ workspace = {}
    /\ opened = {}
    /\ log = <<>>
    /\ error = ""

\* src.compute_digest(dst.head_type) on the i-th file
DigestFile(i) ==
    /\ i \notin io.digest
    /\ src_files' = [src_files EXCEPT ![i] =
          IF pc = "p4harmonize-uegit"
          THEN [@ EXCEPT !.digest = compute_digest_uegit(src_files[i].content,
                                                         dst_files[i].head_type)]
          ELSE GitFile_compute_digest(@, dst_files[i].head_type)]
    /\ io' = [io EXCEPT !.digest = @ \cup {i}]
    /\ UNCHANGED <<pc, env_vars, client_exists, depot, dst_files, src_only, dst_only,
                   case_mismatch, changed, ncompare, pool, workspace, opened, log, error>>

NextDigest == \E i \in DOMAIN src_files : DigestFile(i)

SpecDigest == InitDigest /\ [][NextDigest]_vars

\* -------------------------------------------------------------- the workers
\* compare() with its thread pool: executor.map submits compare_matching for
\* every pair of same_paths, the worker threads take the tasks from the queue
\* and run them statement by statement, and the calling thread takes the
\* results in the order of same_paths and appends to the lists.
\*   pool.tasks    same_paths, as <<src index, dst index>>
\*   pool.queue    the tasks no worker has taken yet
\*   pool.workers  per thread: the task it runs (0: none) and where it is
\*   pool.results  per position of the result iterator: the result, once there
\*   pool.order    the tasks in the order in which they were finished
\*   pool.next     the position the calling thread waits for
\*   pool.writes   per GitFile: how often its digest field was assigned
MaxWorkers == 2

WorkerContents == {<<"x">>, <<"CR", "LF">>}

Idle == [task |-> 0, at |-> "idle"]
NoResult == [done |-> FALSE, case_differs |-> FALSE, content_differs |-> FALSE]

InitWorkers ==
    /\ pc = "compare"
    /\ dry_run = FALSE
    /\ is_unreal = FALSE
    /\ src_ignore = <<>>
    /\ dst_ignore = <<>>
    /\ case_sensitive \in BOOLEAN
    /\ client_exists = TRUE
    /\ git_tree \in GitTrees(WorkerContents)
    /\ dep_tree = <<>>
    /\ depot \in Depots(case_sensitive, CompareDepotContents, FALSE)
    /\ src_files = get_src_files
    /\ dst_files = get_dst_files
    /\ src_only = <<>>
    /\ dst_only = <<>>
    /\ case_mismatch = <<>>
    /\ changed = <<>>
    /\ io = [stat |-> {}, digest |-> {}]
    /\ ncompare = 0
    /\ \E n \in 1..MaxWorkers :
          pool = [NoPool EXCEPT !.workers = [w \in 1..n |-> Idle],
                                !.writes = [si \in DOMAIN src_files |-> 0]]
    /\ workspace = {}
    /\ opened = {}
    /\ log = <<>>
    /\ error = ""

worker_rest == <<pc, env_vars, client_exists, depot, dst_files, src_only, dst_only,
                 case_mismatch, changed, ncompare, workspace, opened, log, error>>

\* compare() up to executor.map: the exclusive lists are assigned and a task
\* is queued for every pair of same_paths
StartCompare ==
    /\ pc = "compare"
    /\ LET src_map == path_map(src_files)
           dst_map == path_map(dst_files)
           pairs == same_paths(src_map, dst_map)
       IN /\ src_only' = SetToSeq({src_map[p] : p \in exclusive(DOMAIN src_map, DOMAIN dst_map)})
          /\ dst_only' = SetToSeq({dst_map[p] : p \in exclusive(DOMAIN dst_map, DOMAIN src_map)})
          /\ pool' = [pool EXCEPT !.tasks = pairs,
                                  !.queue = [i \in DOMAIN pairs |-> i],
                                  !.results = [i \in DOMAIN pairs |-> NoResult],
                                  !.next = 1]
    /\ pc' = "comparing"
    /\ UNCHANGED <<env_vars, client_exists, depot, src_files, dst_files, case_mismatch,
                   changed, io, ncompare, workspace, opened, log, error>>

\* the files of the task a worker runs
task_src(w) == pool.tasks[pool.workers[w].task][1]
task_dst(w) == pool.tasks[pool.workers[w].task][2]

\* a plausible slip: a result is kept at the position it was finished at
result_slot_by_completion(p, task) == Len(p.order) + 1

\* executor.map yields the result of a task at the position of the task
result_slot(p, task) == task

\* the pool after worker w returns from compare_matching
returned(w, case_differs, content_differs) ==
    [pool EXCEPT !.workers[w] = Idle,
                 !.order = Append(@, pool.workers[w].task),
                 !.results[result_slot(pool, pool.workers[w].task)] =
                     [done |-> TRUE, case_differs |-> case_differs,
                      content_differs |-> content_differs]]

\* an idle worker thread takes the next task of the queue
Take(w) ==
    /\ pc = "comparing"
    /\ pool.workers[w] = Idle
    /\ pool.queue # <<>>
    /\ pool' = [pool EXCEPT !.workers[w] = [task |-> Head(pool.queue), at |-> "case"],
                            !.queue = Tail(pool.queue)]
    /\ UNCHANGED <<worker_rest, src_files, io>>

\* compare_matching: if src.relative_path != dst.relative_path
CaseCheck(w) ==
    /\ pool.workers[w].at = "case"
    /\ pool' = IF src_files[task_src(w)].relative_path # dst_files[task_dst(w)].relative_path
               THEN returned(w, TRUE, FALSE)
               ELSE [pool EXCEPT !.workers[w].at =
                        IF type_startswith(dst_files[task_dst(w)].head_type, "binary")
                        THEN "size" ELSE "digest"]
    /\ UNCHANGED <<worker_rest, src_files, io>>

\* compare_matching: os.stat and the comparison of the sizes
SizeCheck(w) ==
    /\ pool.workers[w].at = "size"
    /\ io' = [io EXCEPT !.stat = @ \cup {task_src(w)}]
    /\ pool' = IF str(st_size(src_files[task_src(w)])) # dst_files[task_dst(w)].file_size
               THEN returned(w, FALSE, TRUE)
               ELSE [pool EXCEPT !.workers[w].at = "digest"]
    /\ UNCHANGED <<worker_rest, src_files>>

\* GitFile.compute_digest: if not self.digest
DigestCheck(w) ==
    /\ pool.workers[w].at = "digest"
    /\ pool' = [pool EXCEPT !.workers[w].at =
                    IF src_files[task_src(w)].digest = None THEN "hash" ELSE "differ"]
    /\ UNCHANGED <<worker_rest, src_files, io>>

\* GitFile.compute_digest: self.digest = compute_digest(self.full_path, file_type)
Hash(w) ==
    /\ pool.workers[w].at = "hash"
    /\ src_files' = [src_files EXCEPT ![task_src(w)].digest =
                        compute_digest(src_files[task_src(w)].content,
                                       dst_files[task_dst(w)].head_type)]
    /\ io' = [io EXCEPT !.digest = @ \cup {task_src(w)}]
    /\ pool' = [pool EXCEPT !.workers[w].at = "differ",
                            !.writes[task_src(w)] = @ + 1]
    /\ UNCHANGED worker_rest

\* compare_matching: if src.digest != dst.digest, and the return
Differ(w) ==
    /\ pool.workers[w].at = "differ"
    /\ pool' = returned(w, FALSE,
                        src_files[task_src(w)].digest # dst_files[task_dst(w)].digest)
    /\ UNCHANGED <<worker_rest, src_files, io>>

\* compare(): the calling thread takes the next result of executor.map, when
\* it is there, and appends the pair to case_mismatch or to changed
Collect ==
    /\ pc = "comparing"
    /\ pool.next <= Len(pool.tasks)
    /\ pool.results[pool.next].done
    /\ LET r == pool.results[pool.next]
           pair == pool.tasks[pool.next]
       IN /\ case_mismatch' = IF r.case_differs THEN Append(case_mismatch, pair)
                              ELSE case_mismatch
          /\ changed' = IF ~r.case_differs /\ r.content_differs THEN Append(changed, pair)
                        ELSE changed
    /\ pool' = [pool EXCEPT !.next = @ + 1]
    /\ UNCHANGED <<pc, env_vars, client_exists, depot, src_files, dst_files, src_only,
                   dst_only, io, ncompare, workspace, opened, log, error>>

\* compare(): the results are exhausted, the executor is shut down
EndCompare ==
    /\ pc = "comparing"
    /\ pool.next > Len(pool.tasks)
    /\ pc' = "compared"
    /\ ncompare' = ncompare + 1
    /\ UNCHANGED <<env_vars, client_exists, depot, src_files, dst_files, src_only, dst_only,
                   case_mismatch, changed, io, pool, workspace, opened, log, error>>

NextWorkers ==
    \/ StartCompare
    \/ \E w \in DOMAIN pool.workers :
          Take(w) \/ CaseCheck(w) \/ SizeCheck(w) \/ DigestCheck(w) \/ Hash(w) \/ Differ(w)
    \/ Collect
    \/ EndCompare

SpecWorkers == InitWorkers /\ [][NextWorkers]_vars

\* ============================================================== properties
\* the case-folded keys of the two trees and of the four result lists
src_key(i) == str_lower(src_files[i].relative_path)
dst_key(i) == str_lower(dst_files[i].relative_path)
SrcKeys == {src_key(i) : i \in DOMAIN src_files}
DstKeys == {dst_key(i) : i \in DOMAIN dst_files}
src_only_keys == [i \in DOMAIN src_only |-> src_key(src_only[i])]
dst_only_keys == [i \in DOMAIN dst_only |-> dst_key(dst_only[i])]
case_mismatch_keys == [i \in DOMAIN case_mismatch |-> src_key(case_mismatch[i][1])]
changed_keys == [i \in DOMAIN changed |-> src_key(changed[i][1])]

NoRepeat(s) == \A i, j \in DOMAIN s : i # j => s[i] # s[j]
Count(s, x) == Cardinality({i \in DOMAIN s : s[i] = x})
SameBag(s, t) == \A x \in Range(s) \cup Range(t) : Count(s, x) = Count(t, x)

\* the files of the logged operations of one kind, in order
FilesOf(via, op) ==
    concat([i \in DOMAIN log |->
               IF log[i].via = via /\ log[i].op = op THEN log[i].files ELSE <<>>])
IsBatch(i, op) == log[i].via = "p4_cmd_batch" /\ log[i].op = op

\* C1: after the comparison a run makes, the four lists are a partition of the
\* keys that are not unchanged: no list names a key twice, no two lists share
\* a key, every listed key is a key of a tree, every pair joins two files of
\* one key, and every key of only one tree is listed
C1_Partition ==
    ncompare = 1 =>
        LET lists == <<src_only_keys, dst_only_keys, case_mismatch_keys, changed_keys>>
        IN /\ \A n \in 1..4 : NoRepeat(lists[n])
           /\ \A n, m \in 1..4 : n # m => Range(lists[n]) \cap Range(lists[m]) = {}
           /\ \A n \in 1..4 : Range(lists[n]) \subseteq SrcKeys \cup DstKeys
           /\ \A i \in DOMAIN case_mismatch :
                 src_key(case_mismatch[i][1]) = dst_key(case_mismatch[i][2])
           /\ \A i \in DOMAIN changed : src_key(changed[i][1]) = dst_key(changed[i][2])
           /\ \A k \in (SrcKeys \cup DstKeys) \ (SrcKeys \cap DstKeys) :
                 k \in Range(src_only_keys) \cup Range(dst_only_keys)
           /\ Range(src_only_keys) \cup Range(dst_only_keys)
                 \subseteq (SrcKeys \cup DstKeys) \ (SrcKeys \cap DstKeys)

\* a comparison of a source that holds one key twice, with a source-only file
\* and a case mismatch
C1_Witness ==
    /\ ncompare = 1
    /\ src_only # <<>>
    /\ case_mismatch # <<>>
    /\ Len(src_files) > Cardinality(SrcKeys)

\* C2: when a run ends, every case mismatch was either edited and then moved
\* to the source's spelling (case-sensitive server) or is in the delete batch
\* (case-insensitive server), whatever the other three lists hold
C2_CaseMismatchHandled ==
    pc = "done" =>
        \A i \in DOMAIN case_mismatch :
            LET src == src_files[case_mismatch[i][1]]
                dst == dst_files[case_mismatch[i][2]]
            IN IF case_sensitive
               THEN \E j, k \in DOMAIN log :
                       /\ j < k
                       /\ log[j].via = "p4_run" /\ log[j].op = "edit"
                       /\ log[j].files = <<dst.client_path>>
                       /\ log[k].via = "p4_run" /\ log[k].op = "move"
                       /\ log[k].files = <<dst.client_path, get_dst_path(src)>>
               ELSE \E j \in DOMAIN log :
                       IsBatch(j, "delete") /\ dst.client_path \in Range(log[j].files)

\* C3: a batch whose p4 command failed is the last thing the run issued, and
\* the run has stopped with an error
C3_FailedBatchAborts ==
    \A i \in DOMAIN log :
        (log[i].via = "p4_cmd_batch" /\ log[i].rc # 0) =>
            /\ i = Len(log)
            /\ pc \in {"raised", "exit"}
            /\ error # ""

\* C4: once what a run staged is submitted, comparing the source with the
\* depot again finds no source-only, destination-only or changed file, but
\* for the keys that were case mismatches on a case-insensitive server.
\* (Stated for the runs in which no batch failed and no tree held a key twice.)
C4_SecondReconcileClean ==
    (/\ pc = "submitted"
     /\ \A i \in DOMAIN log : log[i].rc = 0
     /\ Len(src_files) = Cardinality(SrcKeys)
     /\ Len(dst_files) = Cardinality(DstKeys)) =>
        LET d == P4GitFileDiff(get_src_files, get_dst_files)
            exempt == IF case_sensitive THEN {} ELSE Range(case_mismatch_keys)
        IN /\ \A i \in DOMAIN d.src_only :
                 str_lower(d.src_files[d.src_only[i]].relative_path) \in exempt
           /\ \A i \in DOMAIN d.dst_only :
                 str_lower(d.dst_files[d.dst_only[i]].relative_path) \in exempt
           /\ \A i \in DOMAIN d.changed :
                 str_lower(d.src_files[d.changed[i][1]].relative_path) \in exempt

\* the operations that change the destination
MutatingOps == {"save_client", "flush", "copy2", "delete", "add", "edit", "move", "revert -a"}
PreconditionErrors ==
    {"client exists", "root not empty", "GitDependencies.exe not found",
     ".uedependencies not found"}

\* C5: a run that stopped on a precondition error has executed no operation
\* that changes the destination
C5_NoMutationBeforePreconditionError ==
    error \in PreconditionErrors =>
        \A i \in DOMAIN log : ~(log[i].executed /\ log[i].op \in MutatingOps)

C7_NoLastWriteWins ==
    ncompare >= 1 =>
        /\ \A i, j \in DOMAIN src_files :
              (i < j /\ src_key(i) = src_key(j)) => path_map(src_files)[src_key(i)] # j
        /\ \A i, j \in DOMAIN dst_files :
              (i < j /\ dst_key(i) = dst_key(j)) => path_map(dst_files)[dst_key(i)] # j

\* C8: after a second compare() on the same object and inputs, each of the
\* four lists holds what it held after the first, as often
C8_CompareIdempotent ==
    ncompare >= 2 =>
        LET first == P4GitFileDiff(get_src_files, get_dst_files)
        IN /\ SameBag(src_only, first.src_only)
           /\ SameBag(dst_only, first.dst_only)
           /\ SameBag(case_mismatch, first.case_mismatch)
           /\ SameBag(changed, first.changed)

\* the shared keys that are in none of the four lists
UnchangedKeys == (SrcKeys \cap DstKeys) \ (Range(case_mismatch_keys) \cup Range(changed_keys))

\* C9: when a run ends, what it copied is the source-only and changed files,
\* the add batch is the source-only files, the edit batch the changed files,
\* each once; every destination-only file is in the delete batch once; and no
\* copied, added, edited or deleted path has an unchanged key
C9_ActionsMatchClassification ==
    pc = "done" =>
        LET dst_path_of(si) == get_dst_path(src_files[si])
            adds == [i \in DOMAIN src_only |-> dst_path_of(src_only[i])]
            edits == [i \in DOMAIN changed |-> dst_path_of(changed[i][1])]
            touched == FilesOf("shutil", "copy2") \o FilesOf("p4_cmd_batch", "add")
                       \o FilesOf("p4_cmd_batch", "edit") \o FilesOf("p4_cmd_batch", "delete")
        IN /\ SameBag(FilesOf("shutil", "copy2"), adds \o edits)
           /\ SameBag(FilesOf("p4_cmd_batch", "add"), adds)
           /\ SameBag(FilesOf("p4_cmd_batch", "edit"), edits)
           /\ \A i \in DOMAIN dst_only :
                 Count(FilesOf("p4_cmd_batch", "delete"), dst_files[dst_only[i]].client_path) = 1
           /\ \A i \in DOMAIN touched : str_lower(client_rel(touched[i])) \notin UnchangedKeys

\* a finished run that had a new file and a changed file
C9_Witness == pc = "done" /\ src_only # <<>> /\ changed # <<>>

\* C10: a shared key whose two literal paths differ is a case mismatch and not
\* a changed file, and its source file was neither stat-ed nor digested
C10_CaseMismatchNoContentRead ==
    \A k \in SrcKeys \cap DstKeys :
        LET si == path_map(src_files)[k]
            di == path_map(dst_files)[k]
        IN src_files[si].relative_path # dst_files[di].relative_path =>
              /\ <<si, di>> \in Range(case_mismatch)
              /\ <<si, di>> \notin Range(changed)
              /\ si \notin io.stat \cup io.digest
              /\ src_files[si].digest = None

\* a case mismatch of a binary file whose size is not the depot's
C10_Witness ==
    \E i \in DOMAIN case_mismatch :
        LET src == src_files[case_mismatch[i][1]]
            dst == dst_files[case_mismatch[i][2]]
        IN /\ type_startswith(dst.head_type, "binary")
           /\ str(st_size(src)) # dst.file_size

\* the pairs compare() hands to compare_matching: the two indexed files of
\* every shared key
SharedPairs ==
    {<<path_map(src_files)[k], path_map(dst_files)[k]>> : k \in SrcKeys \cap DstKeys}

\* compare_matching stops at the binary size check for the pair
SizeShortCircuit(pr) ==
    /\ type_startswith(dst_files[pr[2]].head_type, "binary")
    /\ str(st_size(src_files[pr[1]])) # dst_files[pr[2]].file_size

SamePath(pr) == src_files[pr[1]].relative_path = dst_files[pr[2]].relative_path

\* C11: a pair of one spelling whose destination head type starts with binary
\* and whose source size, as a decimal string, is not the size the destination
\* reports, is in changed, and the source file was never digested
C11_BinarySizeShortCircuit ==
    \A pr \in SharedPairs :
        (SamePath(pr) /\ SizeShortCircuit(pr)) =>
            /\ pr \in Range(changed)
            /\ pr[1] \notin io.digest
            /\ src_files[pr[1]].digest = None

\* a binary file of one spelling and another size, compared twice
C11_Witness ==
    /\ ncompare = 2
    /\ \E pr \in SharedPairs : SamePath(pr) /\ SizeShortCircuit(pr) /\ pr[1] \in io.stat

\* C12: a pair of one spelling that the size check does not stop is in changed
\* exactly when the digest of the source file, computed for the destination's
\* head type, is not the digest the destination reports; when the two are
\* equal the key is in none of the four lists. The digest is kept on the file.
C12_ChangedIffDigestDiffers ==
    \A pr \in SharedPairs :
        (SamePath(pr) /\ ~SizeShortCircuit(pr)) =>
            LET src == src_files[pr[1]]
                dst == dst_files[pr[2]]
                d == compute_digest(src.content, dst.head_type)
            IN /\ pr \in Range(changed) <=> d # dst.digest
               /\ src.digest = d
               /\ pr[1] \in io.digest
               /\ d = dst.digest =>
                     src_key(pr[1]) \notin Range(src_only_keys) \cup Range(dst_only_keys)
                         \cup Range(case_mismatch_keys) \cup Range(changed_keys)

\* a text file whose source bytes are not the depot's (CR LF against LF) and
\* that is not changed, next to a file whose digest differs
C12_Witness ==
    /\ \E pr \in SharedPairs :
          /\ SamePath(pr) /\ ~SizeShortCircuit(pr)
          /\ src_files[pr[1]].content = <<"CR", "LF">>
          /\ src_files[pr[1]].digest = dst_files[pr[2]].digest
          /\ pr \notin Range(changed)
    /\ \E pr \in SharedPairs :
          SamePath(pr) /\ ~SizeShortCircuit(pr) /\ pr \in Range(changed)

\* C13: src_only is the source files whose key is not a key of the
\* destination, each of them, and dst_only the destination files whose key is
\* not a key of the source; what the files hold plays no part
C13_ExclusiveRecords ==
    /\ Range(src_only) = {i \in DOMAIN src_files : src_key(i) \notin DstKeys}
    /\ Range(dst_only) = {i \in DOMAIN dst_files : dst_key(i) \notin SrcKeys}

\* the byte limit of the file list of one staging call (the ceiling of the
\* destination tool's command length), and the bytes of a list of paths
BatchByteLimit == 8
Payload(files) == Len(concat(files)) + Len(files)

StagingOps == {"delete", "add", "edit", "move"}

\* C15: a run in which a worker of the comparison failed on a source file has
\* stopped with that exception, has compared once, and has issued no flush,
\* copy or staging; a run in which a copy failed has stopped with that
\* exception, has copied once, and has issued no delete, add, edit, move or
\* revert. A failed copy is the last thing a run did.
C15_IOErrorPropagates ==
    /\ error = "OSError in compare" =>
          /\ pc = "raised"
          /\ Cardinality({i \in DOMAIN log : log[i].op = "fstat"}) = 1
          /\ \A i \in DOMAIN log :
                log[i].op \notin {"flush", "copy2", "revert -a"} \cup StagingOps
          /\ workspace = {} /\ opened = {}
    /\ error = "OSError in copy" =>
          /\ pc = "raised"
          /\ Cardinality({i \in DOMAIN log : log[i].op = "copy2"}) = 1
          /\ \A i \in DOMAIN log : log[i].op \notin {"revert -a"} \cup StagingOps
          /\ opened = {}
    /\ \A i \in DOMAIN log :
          (log[i].op = "copy2" /\ log[i].rc # 0) =>
              i = Len(log) /\ pc = "raised" /\ error = "OSError in copy"

\* a run stopped by a failed copy after another file was copied, with a new
\* file that stays unstaged
C15_Witness ==
    /\ error = "OSError in copy"
    /\ workspace # {}
    /\ src_only # <<>>

\* where run() is when it has ended, one way or another
Ended == pc \in {"done", "submitted", "raised", "exit"}

\* C16: `revert -a` is issued at most once, after every staging operation of
\* the run: when it is issued, the delete, add and edit batch of every kind
\* that has files and the move of every case mismatch (case-sensitive server)
\* are in the log before it; and a run that has ended and staged a batch has
\* issued it
C16_RevertOnceAfterStaging ==
    LET reverts == {i \in DOMAIN log : log[i].op = "revert -a"}
        before(i, op) == \E j \in 1..(i - 1) : IsBatch(j, op)
    IN /\ Cardinality(reverts) <= 1
       /\ \A i \in reverts :
             /\ \A j \in DOMAIN log : log[j].op \in StagingOps => j < i
             /\ files_to_delete(self_diff, case_sensitive) # {} => before(i, "delete")
             /\ src_only # <<>> => before(i, "add")
             /\ changed # <<>> => before(i, "edit")
             /\ case_sensitive =>
                   Cardinality({j \in 1..(i - 1) :
                                   log[j].via = "p4_run" /\ log[j].op = "move"})
                       = Len(case_mismatch)
       /\ (Ended /\ \E j \in DOMAIN log : log[j].via = "p4_cmd_batch") =>
             Cardinality(reverts) = 1

\* a finished run that renamed a case mismatch and staged an add batch only
C16_Witness ==
    /\ pc = "done"
    /\ \E j \in DOMAIN log : log[j].op = "move"
    /\ \E j \in DOMAIN log : IsBatch(j, "add")
    /\ changed = <<>>

\* the bytes of a file with every CR LF and every lone CR replaced by LF
LFOnly(content) == replace_cr(replace_crlf(content))

\* C17: the digest of a text file is the hash of its bytes with every CR LF
\* and every lone CR replaced by LF, so two text files that differ in their
\* line ends only have the same digest
C17_TextLineEndings ==
    \A i, j \in io.digest :
        type_contains(dst_files[i].head_type, "text") =>
            /\ src_files[i].digest = md5_hexdigest_upper(LFOnly(src_files[i].content))
            /\ LFOnly(src_files[i].content) = LFOnly(src_files[j].content) =>
                  src_files[i].digest = src_files[j].digest

\* a content with the byte order mark at position n left out
WithoutByte(content, n) == SubSeq(content, 1, n - 1) \o SubSeq(content, n + 1, Len(content))

\* C18: a utf8 file with and the same file without a leading byte order mark
\* have the same digest, a byte order mark anywhere else changes the digest,
\* and two utf8 files that differ only in CR LF against LF have the same digest
C18_Utf8LeadingBOMOnly ==
    \A i, j \in io.digest :
        (pc = "p4harmonize-git-ue" /\ type_contains(dst_files[i].head_type, "utf8")) =>
            LET ci == src_files[i].content
                cj == src_files[j].content
            IN /\ (ci = <<"BOM">> \o cj /\ strip_sig(cj) = cj) =>
                     src_files[i].digest = src_files[j].digest
               /\ \A n \in 2..Len(ci) :
                     (ci[n] = "BOM" /\ cj = WithoutByte(ci, n)) =>
                         src_files[i].digest # src_files[j].digest
               /\ replace_crlf(ci) = replace_crlf(cj) =>
                     src_files[i].digest = src_files[j].digest

\* the threads that run a task
Busy == {w \in DOMAIN pool.workers : pool.workers[w] # Idle}

\* C19: whatever the threads do in whatever order, the digest field of a
\* GitFile is assigned at most once, it is None until then and the digest of
\* the file for the head type of its destination file from then on, and no two
\* tasks, so no two threads, have the same GitFile
C19_DigestWrittenOnce ==
    /\ \A si \in DOMAIN src_files :
          /\ pool.writes[si] <= 1
          /\ pool.writes[si] = 0 <=> src_files[si].digest = None
          /\ pool.writes[si] = 1 =>
                src_files[si].digest =
                    compute_digest(src_files[si].content,
                                   dst_files[path_map(dst_files)[src_key(si)]].head_type)
    /\ \A i, j \in DOMAIN pool.tasks : i # j => pool.tasks[i][1] # pool.tasks[j][1]
    /\ \A v, w \in Busy : v # w => task_src(v) # task_src(w)

\* two threads that are about to assign the digests of two files
C19_Witness ==
    \E v, w \in Busy :
        v # w /\ pool.workers[v].at = "hash" /\ pool.workers[w].at = "hash"

\* C20: when compare() is done, each of the four lists holds the members it
\* holds when the pairs are compared one after the other, whatever the number
\* of threads and the order in which they finished; and at every moment
\* case_mismatch and changed hold what the calling thread has taken from the
\* result iterator, no more
C20_MembershipIndependentOfPool ==
    /\ pc = "compared" =>
          LET d == P4GitFileDiff(get_src_files, get_dst_files)
          IN /\ Range(src_only) = Range(d.src_only)
             /\ Range(dst_only) = Range(d.dst_only)
             /\ Range(case_mismatch) = Range(d.case_mismatch)
             /\ Range(changed) = Range(d.changed)
    /\ LET taken == 1..(pool.next - 1)
       IN /\ Range(case_mismatch) =
                {pool.tasks[i] : i \in {k \in taken : pool.results[k].case_differs}}
          /\ Range(changed) =
                {pool.tasks[i] : i \in {k \in taken : /\ ~pool.results[k].case_differs
                                                      /\ pool.results[k].content_differs}}

\* a compare() of two threads whose second task was finished first, with a
\* case mismatch and a changed file
C20_Witness ==
    /\ pc = "compared"
    /\ Len(pool.workers) = 2
    /\ pool.order = <<2, 1>>
    /\ case_mismatch # <<>>
    /\ changed # <<>>

\* the files of the logged operations that stage a destination file for
\* delete or edit or as the origin of a move, and those that copy a source
\* file or stage it for add or edit
StagedDstPaths ==
    UNION {IF log[i].op \in {"delete", "edit"} THEN Range(log[i].files)
           ELSE IF log[i].op = "move" THEN {log[i].files[1]}
           ELSE {} : i \in DOMAIN log}
StagedSrcPaths ==
    UNION {IF log[i].op = "copy2" \/ IsBatch(i, "add") \/ IsBatch(i, "edit")
           THEN Range(log[i].files) ELSE {} : i \in DOMAIN log}

\* a client path or destination path as a case-folded relative path
FoldedRel(path) == str_lower(client_rel(path))

\* C21: a destination file that matches a pattern of dst_ignore is not among
\* the compared files, and run() never stages its path for delete or edit nor
\* moves it; a source file that matches a pattern of src_ignore is not among
\* the compared files, and run() never copies it nor stages its path for add
\* or edit
C21_IgnoredFilesUntouched ==
    /\ \A i \in DOMAIN get_dst_files :
          should_ignore(get_dst_files[i], dst_ignore) =>
              LET key == str_lower(get_dst_files[i].relative_path)
              IN /\ pc # "submitted" => key \notin DstKeys
                 /\ \A q \in StagedDstPaths : FoldedRel(q) # key
                 /\ \A o \in opened :
                       /\ o.action \in {"delete", "edit"} => str_lower(o.path) # key
                       /\ o.action = "move" => str_lower(o.from) # key
    /\ \A i \in DOMAIN get_src_files :
          should_ignore(get_src_files[i], src_ignore) =>
              LET key == str_lower(get_src_files[i].relative_path)
              IN /\ key \notin SrcKeys
                 /\ \A q \in StagedSrcPaths : FoldedRel(q) # key
                 /\ \A w \in workspace : FoldedRel(w.path) # key

\* a finished run that staged a delete and left alone an ignored destination
\* file that the source does not have
C21_Witness ==
    /\ pc = "done"
    /\ \E i \in DOMAIN log : IsBatch(i, "delete")
    /\ \E i \in DOMAIN get_dst_files :
          /\ should_ignore(get_dst_files[i], dst_ignore)
          /\ \A k \in DOMAIN git_tree :
                str_lower(git_tree[k].path) # str_lower(get_dst_files[i].relative_path)

\* C22: in a dry run nothing that run() or clean() logs is executed, but for
\* the fstat query, no file is copied and none is opened, and no step changes
\* the destination: the client is neither saved nor deleted, the depot and
\* the files below the destination root stay as they are
C22_DryRunMutatesNothing ==
    /\ [](dry_run =>
            /\ \A i \in DOMAIN log : log[i].executed => log[i].op = "fstat"
            /\ workspace = {}
            /\ opened = {})
    /\ [][dry_run => UNCHANGED <<client_exists, depot, workspace, opened>>]_vars

\* a dry clean that found the client and the destination root and left both
C22_Witness ==
    /\ dry_run
    /\ pc = "cleaned"
    /\ client_exists
    /\ \E i \in DOMAIN log : log[i].op = "rmtree" /\ ~log[i].executed

====
